---- MODULE Spec2Model ----
(***************************************************************************)
(* Model of script.js of email-resource-checker: the validate handler      *)
(* (validateURLs), the three-tier page fetch (fetchHTMLContent), the       *)
(* extraction of links and images (extractResources) and the per-resource  *)
(* probe loop (validateResources), with the shared accumulator             *)
(* validationResults and the DOM flags the handler sets.                   *)
(*                                                                         *)
(* Every `await` of the source is a control point (field pc of a run): the *)
(* browser may run another event handler there, so a second click on the   *)
(* validate button starts a second invocation that shares the accumulator. *)
(* The code between two awaits is one atomic action.                       *)
(***************************************************************************)
EXTENDS Integers, Sequences, FiniteSets, TLC

\* ------------------------------------------------------------------ bounds
\* number of clicks on the validate button in one behaviour
MaxClicks == 2

\* number of source URLs that pass the input checks in one behaviour, over
\* all clicks
MaxSources == 2

\* ------------------------------------------------------- program constants
\* script.js:37  if (urls.length > 10)
MaxUrls == 10

\* ------------------------------------------------------------------- URLs
(* A piece of URL text is a record of its three syntactic parts; an absent *)
(* part is "".  host "[" is an unterminated IPv6 literal as in "http://[". *)
Txt(s, h, p) == [scheme |-> s, host |-> h, path |-> p]

EmptyText == Txt("", "", "")
Failure == Txt("!", "!", "!")

\* new URL(text) and new URL(text, base).href of the WHATWG URL parser:
\* base is Failure when no base is given.  The result is the serialised
\* (normalised) URL, or Failure when the constructor throws TypeError.
NormPath(p) == IF p = "" THEN "/" ELSE p

ParseURL(t, base) ==
    IF t.scheme # ""
    THEN IF t.host \in {"", "["} THEN Failure
         ELSE Txt(t.scheme, t.host, NormPath(t.path))
    ELSE IF base = Failure THEN Failure
    ELSE IF t.host # ""
    THEN IF t.host = "[" THEN Failure
         ELSE Txt(base.scheme, t.host, NormPath(t.path))
    ELSE IF t.path # "" THEN Txt(base.scheme, base.host, t.path)
    ELSE base

\* isValidURL parsing against a base, as new URL(url, location.href) would
isValidURL_WithBase(url) == ParseURL(url, Txt("https:", "example.com", "/")) # Failure

\* script.js:289  isValidURL
isValidURL(url) == ParseURL(url, Failure) # Failure

\* ------------------------------------------------------------ page bodies
(* A body is the text the fetch returned: field text abstracts the string  *)
(* ("" is the empty string, CORS_RESTRICTED the literal the code uses as a *)
(* marker, "html" any other text) and elems is what DOMParser finds in it, *)
(* the a and img elements in document order.                               *)
CORS_RESTRICTED == "<!-- CORS_RESTRICTED -->"

Elem(tag, has, attr) == [tag |-> tag, has |-> has, attr |-> attr]

Body(text, elems) == [text |-> text, elems |-> elems]

NoHtml == Body("null", <<>>)

RestrictedBody == Body(CORS_RESTRICTED, <<>>)

\* the value of getAttribute for an absent attribute
Null == Txt("null", "", "")

\* script.js:158  extractResources: the marker for the placeholder text, else
\* every anchor's href and then every image's src, in document order, the
\* entries whose url is null or "" filtered out.
RestrictedMarker == [url |-> Txt("", "", "CORS_RESTRICTED"), type |-> "error", corsRestricted |-> TRUE]

Resource(e, type) == [url |-> IF e.has THEN e.attr ELSE Null, type |-> type, corsRestricted |-> FALSE]

IsAnchor(e) == e.tag = "a"

IsImage(e) == e.tag = "img"

Truthy(resource) == resource.url \notin {Null, EmptyText}

MapElems(s, type) == [n \in 1..Len(s) |-> Resource(s[n], type)]

extractResources(html) ==
    IF html.text = CORS_RESTRICTED
    THEN <<RestrictedMarker>>
    ELSE LET links  == MapElems(SelectSeq(html.elems, IsAnchor), "link")
             images == MapElems(SelectSeq(html.elems, IsImage), "image")
         IN  SelectSeq(links \o images, Truthy)

\* ---------------------------------------------------------------- records
\* a ValidationResult as pushed on validationResults
Result(sourceUrl, url, type, status, reason) ==
    [sourceUrl |-> sourceUrl, url |-> url, type |-> type, status |-> status, reason |-> reason]

\* the text shown by showError: a fixed message and the URLs embedded in it
Message(msg, args) == [msg |-> msg, args |-> args]

NoMessage == Message("", <<>>)

\* ------------------------------------------------- answers of the network
(* The body of the relay's answer to a status probe, as response.json()    *)
(* returns it: JSON null, an object without a status field, an object      *)
(* whose status has no http_code, or an object with status.http_code.      *)
Json(kind, code) == [kind |-> kind, code |-> code]

HttpCodes == {199, 200, 399, 400}

JsonData == {Json("null", 0), Json("nostatus", 0), Json("nocode", 0)}
            \cup {Json("code", c) : c \in HttpCodes}

\* script.js:239-244: the status and reason computed from the relay's answer;
\* the caller has excluded JSON null, on which proxyData.status throws.
HttpCodeText(proxyData) ==
    IF proxyData.kind = "nostatus" THEN "unknown"
    ELSE IF proxyData.kind = "nocode" THEN "undefined"
    ELSE ToString(proxyData.code)

\* the else branch of script.js:241 without its assignment of status, which
\* keeps the initial 'Unknown' of script.js:228
RelayVerdict_KeepsUnknown(proxyOk, proxyData) ==
    IF proxyOk /\ proxyData.kind = "code" /\ proxyData.code >= 200 /\ proxyData.code < 400
    THEN [status |-> "Valid", reason |-> ""]
    ELSE [status |-> "Unknown",
          reason |-> "Resource unavailable (HTTP " \o HttpCodeText(proxyData) \o ")"]

\* script.js:239 with the upper limit 300: a redirect code counts as a failure
RelayVerdict_BrokenOnRedirect(proxyOk, proxyData) ==
    IF proxyOk /\ proxyData.kind = "code" /\ proxyData.code >= 200 /\ proxyData.code < 300
    THEN [status |-> "Valid", reason |-> ""]
    ELSE [status |-> "Broken",
          reason |-> "Resource unavailable (HTTP " \o HttpCodeText(proxyData) \o ")"]

RelayVerdict(proxyOk, proxyData) ==
    IF proxyOk /\ proxyData.kind = "code" /\ proxyData.code >= 200 /\ proxyData.code < 400
    THEN [status |-> "Valid", reason |-> ""]
    ELSE [status |-> "Broken",
          reason |-> "Resource unavailable (HTTP " \o HttpCodeText(proxyData) \o ")"]

\* ------------------------------------------------------------------ state
VARIABLES
    runs,               \* the invocations of validateURLs, one per click
    nclicks,            \* clicks on validateBtn so far
    validationResults,  \* script.js:14, shared by all invocations
    errorMessage,       \* errorMessage.textContent
    resultsBody,        \* the result rows rendered by displayResults
    exportDisabled,     \* exportBtn.disabled
    loadingHidden,      \* loadingIndicator has class hidden
    tableHidden,        \* resultsTableContainer has class hidden
    noResultsHidden     \* noResultsMessage has class hidden

vars == <<runs, nclicks, validationResults, errorMessage, resultsBody,
          exportDisabled, loadingHidden, tableHidden, noResultsHidden>>

Runs == 1..MaxClicks

(* What is recorded about the processing of one source URL by one          *)
(* invocation: the requests fetchHTMLContent issued, in order (tiers), how *)
(* it returned (via: "none" while it runs, the tier that gave the result,  *)
(* or "null"), the text it returned, the number of extracted resources     *)
(* (-1: extractResources was not called), the records pushed for the       *)
(* source, the number of pauses of script.js:284 begun for it and whether   *)
(* line 68 ran.  The locals of an invocation that are out of scope hold    *)
(* the values of IdleRun.                                                  *)
NewSource ==
    [tiers |-> <<"relay">>, via |-> "none", html |-> NoHtml, nres |-> -1,
     recs |-> <<>>, pauses |-> 0, failed |-> FALSE]

\* an invocation that has not been started
IdleRun ==
    [pc |-> "idle", urls |-> <<>>, i |-> 0, resources |-> <<>>, k |-> 0,
     absoluteUrl |-> Failure, proxyOk |-> FALSE, proxyData |-> Json("none", 0),
     probes |-> <<>>, hist |-> <<>>]

\* The page as loaded: nothing typed, no click yet; the three containers and
\* the export button are taken to start hidden and disabled (index.html).
Init ==
    /\ runs = [r \in Runs |-> IdleRun]
    /\ nclicks = 0
    /\ validationResults = <<>>
    /\ errorMessage = NoMessage
    /\ resultsBody = <<>>
    /\ exportDisabled = TRUE
    /\ loadingHidden = TRUE
    /\ tableHidden = TRUE
    /\ noResultsHidden = TRUE

(* The code between two awaits runs to completion; it is written as        *)
(* operators on a context: the invocation's own record (me) and the shared *)
(* variables it may write.                                                 *)
Ctx(r) ==
    [me |-> runs[r], validationResults |-> validationResults,
     errorMessage |-> errorMessage, resultsBody |-> resultsBody,
     exportDisabled |-> exportDisabled, loadingHidden |-> loadingHidden,
     tableHidden |-> tableHidden, noResultsHidden |-> noResultsHidden]

Install(r, c) ==
    /\ runs' = [runs EXCEPT ![r] = c.me]
    /\ validationResults' = c.validationResults
    /\ errorMessage' = c.errorMessage
    /\ resultsBody' = c.resultsBody
    /\ exportDisabled' = c.exportDisabled
    /\ loadingHidden' = c.loadingHidden
    /\ tableHidden' = c.tableHidden
    /\ noResultsHidden' = c.noResultsHidden
    /\ UNCHANGED nclicks

sourceUrl(me) == me.urls[me.i]

\* script.js:153  showError
showError(c, message) == [c EXCEPT !.errorMessage = message]

\* validationResults.push(...) in validateResources
Push(c, rec) ==
    [c EXCEPT !.validationResults = Append(@, rec),
              !.me.hist[c.me.i].recs = Append(@, rec)]

\* script.js:298  displayResults: one row per record, the table shown
displayResults(c) ==
    [c EXCEPT !.resultsBody = c.validationResults, !.tableHidden = FALSE]

\* script.js:76-88 with the test of line 77 always true: the table is shown
\* and the export enabled even when validationResults is empty
Finish_AlwaysDisplays(c) ==
    [displayResults(c) EXCEPT !.exportDisabled = FALSE,
                              !.loadingHidden = TRUE, !.me.pc = "done",
                              !.me.resources = <<>>, !.me.k = 0, !.me.absoluteUrl = Failure,
                              !.me.proxyOk = FALSE, !.me.proxyData = Json("none", 0),
                              !.me.probes = <<>>]

\* script.js:76-88: after the loop over the source URLs
Finish(c) ==
    LET shown == IF Len(c.validationResults) > 0
                 THEN [displayResults(c) EXCEPT !.exportDisabled = FALSE]
                 ELSE [c EXCEPT !.noResultsHidden = FALSE]
    IN  [shown EXCEPT !.loadingHidden = TRUE, !.me.pc = "done",
                      !.me.resources = <<>>, !.me.k = 0, !.me.absoluteUrl = Failure,
                      !.me.proxyOk = FALSE, !.me.proxyData = Json("none", 0),
                      !.me.probes = <<>>]

\* script.js:56-59: the next iteration of the loop over urls, up to the
\* relay request of fetchHTMLContent (script.js:97-104), or the end of the loop
NextSource(c) ==
    IF c.me.i + 1 > Len(c.me.urls)
    THEN Finish(c)
    ELSE [c EXCEPT !.me.i = @ + 1, !.me.pc = "relay",
                   !.me.resources = <<>>, !.me.k = 0, !.me.absoluteUrl = Failure,
                   !.me.proxyOk = FALSE, !.me.proxyData = Json("none", 0),
                   !.me.probes = <<>>,
                   !.me.hist = Append(@, NewSource)]

\* script.js:284: the pause of 100 ms after a resource begins
Pause(c) ==
    [c EXCEPT !.me.pc = "delay", !.me.hist[c.me.i].pauses = @ + 1]

\* script.js:210-225 and 271-281: the loop over resources from resource k on,
\* up to the relay request for the first one that resolves (script.js:233-235),
\* the pause after one whose resolution throws (script.js:284), or the end
\* of the loop, where validateResources returns to the loop over urls.
RECURSIVE ResourceLoop(_, _)
ResourceLoop(c, k) ==
    IF k > Len(c.me.resources)
    THEN NextSource(c)
    ELSE LET resource    == c.me.resources[k]
             absoluteUrl == ParseURL(resource.url, sourceUrl(c.me))
             at == [c EXCEPT !.me.k = k, !.me.absoluteUrl = absoluteUrl,
                             !.me.proxyOk = FALSE, !.me.proxyData = Json("none", 0),
                             !.me.probes = <<>>]
         IN  IF absoluteUrl = Failure
             THEN \* new URL throws: the catch of script.js:271, then the pause
                  Pause(Push(at, Result(sourceUrl(c.me), resource.url, resource.type,
                                        "Broken", "Error processing resource")))
             ELSE IF ~isValidURL(absoluteUrl)
             THEN \* script.js:216-224: push and continue, which skips the pause
                  ResourceLoop(Push(at, Result(sourceUrl(c.me), resource.url, resource.type,
                                               "Broken", "Invalid URL format")), k + 1)
             ELSE [at EXCEPT !.me.pc = "resRelay", !.me.probes = <<"relay">>]

\* validateResources without the branch of script.js:199-208: an empty list
\* of resources falls through to the loop, which pushes nothing
validateResources_NoEmptyRecord(c, resources) ==
    LET src == sourceUrl(c.me)
        inp == [c EXCEPT !.me.resources = resources]
    IN  IF Len(resources) = 1 /\ resources[1].corsRestricted
        THEN NextSource(Push(inp, Result(src, src, "URL", "Unknown",
                                        "CORS restricted - cannot access content")))
        ELSE ResourceLoop(inp, 1)

\* script.js:185  validateResources, up to its first await or its return
validateResources(c, resources) ==
    LET src == sourceUrl(c.me)
        inp == [c EXCEPT !.me.resources = resources]
    IN  IF Len(resources) = 1 /\ resources[1].corsRestricted
        THEN NextSource(Push(inp, Result(src, src, "URL", "Unknown",
                                        "CORS restricted - cannot access content")))
        ELSE IF Len(resources) = 0
        THEN NextSource(Push(inp, Result(src, src, "URL", "Empty",
                                        "No links or images found")))
        ELSE ResourceLoop(inp, 1)

\* script.js:59-69 without the else branch of line 67: a null html is
\* skipped without showError
Fetched_SilentOnNull(c, html, via) ==
    LET got == [c EXCEPT !.me.hist[c.me.i].via = via, !.me.hist[c.me.i].html = html]
    IN  IF html # NoHtml /\ html.text # ""
        THEN LET resources == extractResources(html)
             IN  validateResources([got EXCEPT !.me.hist[c.me.i].nres = Len(resources)],
                                   resources)
        ELSE NextSource([got EXCEPT !.me.hist[c.me.i].failed = TRUE])

\* script.js:59-69: fetchHTMLContent has returned html through tier via
\* (NoHtml, "null": it returned null)
Fetched(c, html, via) ==
    LET got == [c EXCEPT !.me.hist[c.me.i].via = via, !.me.hist[c.me.i].html = html]
    IN  IF html # NoHtml /\ html.text # ""
        THEN LET resources == extractResources(html)
             IN  validateResources([got EXCEPT !.me.hist[c.me.i].nres = Len(resources)],
                                   resources)
        ELSE NextSource([showError(got, Message("Failed to fetch content from: ",
                                                <<sourceUrl(c.me)>>))
                            EXCEPT !.me.hist[c.me.i].failed = TRUE])

\* a further request of fetchHTMLContent
Request(c, tier) ==
    [c EXCEPT !.me.pc = tier, !.me.hist[c.me.i].tiers = Append(@, tier)]

\* ----------------------------------------------------------------- inputs
Src1 == Txt("https:", "example.com", "/a")

Src2 == Txt("https:", "other.org", "")

\* a line that is no absolute URL
BadSrc == Txt("", "", "/a")

\* a line of white space
Blank == EmptyText

Repeat(x, n) == [j \in 1..n |-> x]

\* the lines of urlInput.value the user may have typed when clicking
InputValues ==
    { <<>>, <<Blank>>, <<BadSrc>>, <<Src1>>, <<Blank, Src1>>, <<Src1, BadSrc>>,
      <<Src1, Src2>>, Repeat(Src1, MaxUrls + 1) }

\* the texts a page request may return
Bodies ==
    { Body("", <<>>),
      RestrictedBody,
      Body("html", <<>>),
      Body("html", <<Elem("a", FALSE, EmptyText), Elem("img", TRUE, EmptyText)>>),
      Body("html", <<Elem("img", TRUE, Txt("", "", "/x.png")),
                     Elem("a", TRUE, Txt("http:", "[", ""))>>) }

\* ---------------------------------------------------------------- actions
NonBlank(url) == url # Blank

RECURSIVE Submitted(_)
Submitted(n) ==
    IF n = 0 THEN 0
    ELSE Submitted(n - 1) + IF runs[n].pc = "rejected" THEN 0 ELSE Len(runs[n].urls)

\* script.js:21-59  validateURLs, from the click to its first await or its
\* early return
validateURLs(value) ==
    /\ nclicks < MaxClicks
    /\ nclicks' = nclicks + 1
    /\ LET r == nclicks + 1
           urls == SelectSeq(value, NonBlank)
           invalidURLs == SelectSeq(urls, LAMBDA url : ~isValidURL(url))
           cleared == [Ctx(r) EXCEPT !.validationResults = <<>>,
                                     !.errorMessage = NoMessage,
                                     !.resultsBody = <<>>,
                                     !.exportDisabled = TRUE,
                                     !.me.urls = urls,
                                     !.me.pc = "rejected"]
           c == IF Len(urls) = 0
                THEN showError(cleared, Message("Please enter at least one URL.", <<>>))
                ELSE IF Len(urls) > MaxUrls
                THEN showError(cleared, Message("Maximum 10 URLs allowed.", <<>>))
                ELSE IF Len(invalidURLs) > 0
                THEN showError(cleared, Message("Invalid URL format: ", invalidURLs))
                ELSE NextSource([cleared EXCEPT !.loadingHidden = FALSE,
                                                !.tableHidden = TRUE,
                                                !.noResultsHidden = TRUE])
       IN  /\ c.me.pc # "rejected" => Submitted(nclicks) + Len(urls) <= MaxSources
           /\ runs' = [runs EXCEPT ![r] = c.me]
           /\ validationResults' = c.validationResults
           /\ errorMessage' = c.errorMessage
           /\ resultsBody' = c.resultsBody
           /\ exportDisabled' = c.exportDisabled
           /\ loadingHidden' = c.loadingHidden
           /\ tableHidden' = c.tableHidden
           /\ noResultsHidden' = c.noResultsHidden

\* script.js:99-130: the relay answers; response.ok decides between reading
\* the body and the direct request
RelayResponds(r, ok) ==
    /\ runs[r].pc = "relay"
    /\ Install(r, IF ok THEN [Ctx(r) EXCEPT !.me.pc = "relayText"]
                        ELSE Request(Ctx(r), "direct"))

\* script.js:131-140: the relay request or the reading of its body throws;
\* the catch issues the no-cors HEAD request
RelayThrows(r) ==
    /\ runs[r].pc \in {"relay", "relayText"}
    /\ Install(r, Request(Ctx(r), "probe"))

\* script.js:107: the body of the relay's answer has been read
RelayText(r, html) ==
    /\ runs[r].pc = "relayText"
    /\ Install(r, Fetched(Ctx(r), html, "relay"))

\* script.js:121-125: the direct request answers
DirectResponds(r, ok) ==
    /\ runs[r].pc = "direct"
    /\ Install(r, IF ok THEN [Ctx(r) EXCEPT !.me.pc = "directText"]
                        ELSE Fetched(Ctx(r), NoHtml, "null"))

\* script.js:126-129: the direct request or the reading of its body throws
DirectThrows(r) ==
    /\ runs[r].pc \in {"direct", "directText"}
    /\ Install(r, Fetched(Ctx(r), NoHtml, "null"))

\* script.js:122: the body of the direct answer has been read
DirectText(r, html) ==
    /\ runs[r].pc = "directText"
    /\ Install(r, Fetched(Ctx(r), html, "direct"))

\* script.js:137-144: the no-cors HEAD request completes
ProbeCompletes(r) ==
    /\ runs[r].pc = "probe"
    /\ Install(r, Fetched(Ctx(r), RestrictedBody, "probe"))

\* script.js:145-148: the no-cors HEAD request throws
ProbeThrows(r) ==
    /\ runs[r].pc = "probe"
    /\ Install(r, Fetched(Ctx(r), NoHtml, "null"))

\* script.js:264-270 with a continue after the push, which skips the pause
\* of line 284
Record_NoPause(c, status, reason) ==
    ResourceLoop(Push(c, Result(sourceUrl(c.me), c.me.absoluteUrl,
                                c.me.resources[c.me.k].type, status, reason)),
                 c.me.k + 1)

\* script.js:264-270 and 284: the record of the current resource is pushed
\* and the pause of 100 ms begins
Record(c, status, reason) ==
    Pause(Push(c, Result(sourceUrl(c.me), c.me.absoluteUrl, c.me.resources[c.me.k].type,
                         status, reason)))

\* script.js:245-253: the catch of the relay probe issues the no-cors HEAD
\* request against absoluteUrl
Fallback(c) ==
    [c EXCEPT !.me.pc = "resProbe", !.me.probes = Append(@, "probe")]

\* script.js:235: the relay answers the status probe
ResRelayResponds(r, ok) ==
    /\ runs[r].pc = "resRelay"
    /\ Install(r, [Ctx(r) EXCEPT !.me.pc = "resJson", !.me.proxyOk = ok])

\* script.js:235-236: the relay request throws, or its body is no JSON
ResRelayThrows(r) ==
    /\ runs[r].pc \in {"resRelay", "resJson"}
    /\ Install(r, Fallback(Ctx(r)))

\* script.js:236-244: the body has been parsed; reading proxyData.status of
\* JSON null throws TypeError inside the try, which the catch of line 245 takes
ResJson(r, proxyData) ==
    /\ runs[r].pc = "resJson"
    /\ LET c == [Ctx(r) EXCEPT !.me.proxyData = proxyData]
           verdict == RelayVerdict(c.me.proxyOk, proxyData)
       IN  Install(r, IF proxyData.kind = "null"
                      THEN Fallback(c)
                      ELSE Record(c, verdict.status, verdict.reason))

\* script.js:250-257: the no-cors HEAD request completes
ResProbeCompletes(r) ==
    /\ runs[r].pc = "resProbe"
    /\ Install(r, Record(Ctx(r), "Likely Valid", "CORS restrictions prevent full validation"))

\* the exception of the no-cors HEAD request caught by no handler of
\* validateResources: it reaches the catch of script.js:70
ResProbeThrows_Propagates(r) ==
    /\ runs[r].pc = "resProbe"
    /\ Install(r, NextSource(Ctx(r)))

\* script.js:258-261: the no-cors HEAD request throws
ResProbeThrows(r) ==
    /\ runs[r].pc = "resProbe"
    /\ Install(r, Record(Ctx(r), "Broken", "Network error or resource unavailable"))

\* script.js:284 with a promise that is never resolved: the pause never ends
DelayDone_NeverResolves(r) ==
    /\ runs[r].pc = "delay"
    /\ UNCHANGED vars

\* script.js:284: the pause is over; the loop goes on with the next resource
DelayDone(r) ==
    /\ runs[r].pc = "delay"
    /\ Install(r, ResourceLoop(Ctx(r), runs[r].k + 1))

Next ==
    \/ \E value \in InputValues : validateURLs(value)
    \/ \E r \in Runs, ok \in BOOLEAN : RelayResponds(r, ok)
    \/ \E r \in Runs : RelayThrows(r)
    \/ \E r \in Runs, html \in Bodies : RelayText(r, html)
    \/ \E r \in Runs, ok \in BOOLEAN : DirectResponds(r, ok)
    \/ \E r \in Runs : DirectThrows(r)
    \/ \E r \in Runs, html \in Bodies : DirectText(r, html)
    \/ \E r \in Runs : ProbeCompletes(r)
    \/ \E r \in Runs : ProbeThrows(r)
    \/ \E r \in Runs, ok \in BOOLEAN : ResRelayResponds(r, ok)
    \/ \E r \in Runs : ResRelayThrows(r)
    \/ \E r \in Runs, proxyData \in JsonData : ResJson(r, proxyData)
    \/ \E r \in Runs : ResProbeCompletes(r)
    \/ \E r \in Runs : ResProbeThrows(r)
    \/ \E r \in Runs : DelayDone(r)

Spec == Init /\ [][Next]_vars

\* a step of invocation r: an answer or an exception of the request it
\* awaits, or the end of its pause
RunStep(r) ==
    \/ \E ok \in BOOLEAN : RelayResponds(r, ok)
    \/ RelayThrows(r)
    \/ \E html \in Bodies : RelayText(r, html)
    \/ \E ok \in BOOLEAN : DirectResponds(r, ok)
    \/ DirectThrows(r)
    \/ \E html \in Bodies : DirectText(r, html)
    \/ ProbeCompletes(r)
    \/ ProbeThrows(r)
    \/ \E ok \in BOOLEAN : ResRelayResponds(r, ok)
    \/ ResRelayThrows(r)
    \/ \E proxyData \in JsonData : ResJson(r, proxyData)
    \/ ResProbeCompletes(r)
    \/ ResProbeThrows(r)
    \/ DelayDone(r)

\* every request is answered or throws, and every timer fires: an invocation
\* that awaits is resumed
LiveSpec == Spec /\ \A r \in Runs : WF_vars(RunStep(r))

\* ------------------------------------------------------------- properties
\* source i of invocation r has been processed completely
Processed(r, i) == i \in DOMAIN runs[r].hist /\ (i < runs[r].i \/ runs[r].pc = "done")

\* the a and img elements of a text that carry a non-empty reference
NumRefs(html) ==
    Cardinality({n \in DOMAIN html.elems : html.elems[n].has /\ html.elems[n].attr # EmptyText})

\* a list the input checks must refuse: empty, too long, or with an entry
\* that is no absolute URL
Refused(urls) ==
    \/ Len(urls) = 0
    \/ Len(urls) > MaxUrls
    \/ \E n \in DOMAIN urls : urls[n].scheme = "" \/ urls[n].host \in {"", "["}

PreconditionErrors ==
    {"Please enter at least one URL.", "Maximum 10 URLs allowed.", "Invalid URL format: "}

\* C1: an invocation whose list of URLs is empty, longer than 10 or holds an
\* entry that is no absolute URL returns at once: it issues no request, it
\* shows a precondition error and it leaves validationResults empty.
C1_PreconditionRejects ==
    [][\A r \in Runs :
          (runs[r].pc = "idle" /\ runs'[r].pc # "idle" /\ Refused(runs'[r].urls))
          => /\ runs'[r].pc = "rejected"
             /\ runs'[r].hist = <<>>
             /\ errorMessage'.msg \in PreconditionErrors
             /\ validationResults' = <<>>]_vars

\* an invocation with an invalid entry is refused after an earlier one has
\* pushed records
C1_Witness ==
    \E r \in Runs :
        /\ runs[r].pc = "rejected"
        /\ \E n \in DOMAIN runs[r].urls : ~isValidURL(runs[r].urls[n])
        /\ r > 1 /\ runs[1].pc = "done" /\ runs[1].hist[1].recs # <<>>
        /\ validationResults = <<>>

\* C2: when the relay attempt of fetchHTMLContent fails (non-success status
\* or exception), the next request is the direct one, before any probe.
C2_DirectFollowsRelayFailure ==
    \A r \in Runs : \A i \in DOMAIN runs[r].hist :
        LET h == runs[r].hist[i]
        IN  /\ h.via \notin {"none", "relay"} => Len(h.tiers) >= 2
            /\ Len(h.tiers) >= 2 => h.tiers[2] = "direct"

\* C3: when the relay and the direct attempt have both failed the probe is
\* attempted, so that fetchHTMLContent returns null only after the relay,
\* the direct request and the probe were attempted, in this order.
C3_NullOnlyAfterThreeTiers ==
    \A r \in Runs : \A i \in DOMAIN runs[r].hist :
        runs[r].hist[i].via = "null"
        => runs[r].hist[i].tiers = <<"relay", "direct", "probe">>

Last(seq) == seq[Len(seq)]

\* the record pushed last for the source invocation r is working on
LastRec(r) == Last(runs[r].hist[runs[r].i].recs)

ResourceStatuses == {"Valid", "Broken", "Likely Valid"}

\* C4: a source whose text was read and holds N >= 1 links and images with
\* a non-empty reference gets exactly N records, each for this source and
\* each Valid, Broken or Likely Valid, whatever the relay and the probes answer.
C4_OneRecordPerResource ==
    \A r \in Runs : \A i \in DOMAIN runs[r].hist :
        LET h == runs[r].hist[i]
        IN  (Processed(r, i) /\ h.via \in {"relay", "direct"} /\ NumRefs(h.html) >= 1)
            => /\ Len(h.recs) = NumRefs(h.html)
               /\ \A n \in DOMAIN h.recs :
                     /\ h.recs[n].sourceUrl = runs[r].urls[i]
                     /\ h.recs[n].status \in ResourceStatuses

\* a page with two references was processed to the end: two records, the
\* second one settled by the no-cors probe
C4_Witness ==
    \E r \in Runs :
        /\ runs[r].pc = "done"
        /\ NumRefs(runs[r].hist[1].html) = 2
        /\ Len(runs[r].hist[1].recs) = 2
        /\ runs[r].hist[1].recs[2].status = "Likely Valid"

EmptyRecord(src) == Result(src, src, "URL", "Empty", "No links or images found")

\* C5: a text returned by the relay or the direct request that holds no
\* link and no image with a non-empty reference gets exactly one record:
\* Empty, url the source URL, reason "No links or images found".
C5_EmptyPageOneRecord ==
    \A r \in Runs : \A i \in DOMAIN runs[r].hist :
        LET h == runs[r].hist[i]
        IN  (Processed(r, i) /\ h.via \in {"relay", "direct"} /\ NumRefs(h.html) = 0)
            => h.recs = <<EmptyRecord(runs[r].urls[i])>>

\* C6: a source for which fetchHTMLContent returns null gets no record, the
\* error "Failed to fetch content from: <source>" is shown, and the loop
\* goes on with the next source URL (or ends after the last one).
C6_NullSourceSkipped ==
    [][\A r \in Runs : \A i \in DOMAIN runs'[r].hist :
          runs'[r].hist[i].via = "null"
          => /\ runs'[r].hist[i].recs = <<>>
             /\ (i \in DOMAIN runs[r].hist /\ runs[r].hist[i].via = "none")
                => /\ errorMessage' = Message("Failed to fetch content from: ",
                                              <<runs'[r].urls[i]>>)
                   /\ validationResults' = validationResults
                   /\ i < Len(runs'[r].urls)
                      => runs'[r].i = i + 1 /\ runs'[r].pc = "relay"
                   /\ i = Len(runs'[r].urls) => runs'[r].pc = "done"]_vars

\* the first source came back null and the second one got its record
C6_Witness ==
    \E r \in Runs :
        /\ Len(runs[r].hist) = 2
        /\ runs[r].hist[1].via = "null"
        /\ runs[r].hist[1].recs = <<>>
        /\ runs[r].hist[2].recs # <<>>
        /\ validationResults = runs[r].hist[2].recs

\* C7: a resource whose reference does not resolve against its source page
\* gets the record Broken / "Invalid URL format", and no request (relay or
\* probe) is issued for it.
C7_UnresolvableIsInvalidFormat ==
    \A r \in Runs :
        LET me == runs[r]
        IN  (me.k >= 1 /\ ParseURL(me.resources[me.k].url, sourceUrl(me)) = Failure)
            => /\ me.probes = <<>>
               /\ me.pc = "delay"
               /\ LastRec(r) = Result(sourceUrl(me), me.resources[me.k].url,
                                      me.resources[me.k].type,
                                      "Broken", "Invalid URL format")

InSuccessRange(code) == code >= 200 /\ code < 400

\* C8: when the relay's answer to the status probe has been read without an
\* exception, the record is Valid exactly if the response is ok and carries
\* a status whose code is in [200,400), and else Broken with the code, or
\* "unknown" when there is none, in its reason; so the record of a resource
\* is Valid only if such a code was observed for it.
C8_RelayVerdict ==
    \A r \in Runs :
        LET me == runs[r]
            d  == me.proxyData
            good == me.proxyOk /\ d.kind = "code" /\ InSuccessRange(d.code)
        IN  /\ d.kind # "none"
               => /\ me.pc = "delay"
                  /\ LastRec(r) =
                        Result(sourceUrl(me), me.absoluteUrl, me.resources[me.k].type,
                               IF good THEN "Valid" ELSE "Broken",
                               IF good THEN ""
                               ELSE "Resource unavailable (HTTP "
                                    \o (IF d.kind = "code" THEN ToString(d.code) ELSE "unknown")
                                    \o ")")
            /\ (me.pc = "delay" /\ LastRec(r).status = "Valid") => good

\* C9: when the relay status probe throws, the no-cors probe is sent to the
\* absolute URL; the record is Likely Valid / "CORS restrictions prevent
\* full validation" if it completes and Broken / "Network error or resource
\* unavailable" if it throws. No record is Likely Valid otherwise: the relay
\* request or the parsing of its body has thrown before.
C9_ProbeFallback ==
    \A r \in Runs :
        LET me == runs[r]
        IN  me.pc = "delay"
            => /\ me.probes = <<"relay", "probe">>
                  => \/ /\ LastRec(r).status = "Likely Valid"
                        /\ LastRec(r).reason = "CORS restrictions prevent full validation"
                     \/ /\ LastRec(r).status = "Broken"
                        /\ LastRec(r).reason = "Network error or resource unavailable"
               /\ LastRec(r).status = "Likely Valid"
                  => me.probes = <<"relay", "probe">> /\ me.proxyData.kind = "none"

RestrictedRecord(src) ==
    Result(src, src, "URL", "Unknown", "CORS restricted - cannot access content")

\* C10: a source gets the single record Unknown / "CORS restricted - cannot
\* access content" exactly if its fetch ended with a completed probe; a
\* source whose text was read through the relay or the direct request gets
\* no Unknown record.
C10_UnknownIffProbe ==
    \A r \in Runs : \A i \in DOMAIN runs[r].hist :
        LET h == runs[r].hist[i]
        IN  Processed(r, i)
            => /\ h.recs = <<RestrictedRecord(runs[r].urls[i])>> <=> h.via = "probe"
               /\ h.via \in {"relay", "direct"}
                  => \A n \in DOMAIN h.recs : h.recs[n].status # "Unknown"

\* the step in which invocation r leaves the loop over its URLs (script.js:76)
Ends(r) == runs[r].pc \notin {"idle", "rejected", "done"} /\ runs'[r].pc = "done"

\* acc is grouped by source in the order of urls, links before images
InOrder(acc, urls) ==
    \A m, n \in DOMAIN acc :
        m < n => \E a, b \in DOMAIN urls :
                    /\ a <= b
                    /\ urls[a] = acc[m].sourceUrl
                    /\ urls[b] = acc[n].sourceUrl
                    /\ a = b => ~(acc[m].type = "image" /\ acc[n].type = "link")

\* C11: when an invocation ends, the records of validationResults are
\* grouped by source URL in the order of its input, and for one source the
\* link records come before the image records.
C11_FinalOrder ==
    [][\A r \in Runs : Ends(r) => InOrder(validationResults', runs'[r].urls)]_vars

GoodAnswer(me) ==
    me.proxyOk /\ me.proxyData.kind = "code" /\ InSuccessRange(me.proxyData.code)

\* C13 as claimed: the record of a resource is Broken only after a relay
\* status of 4xx or 5xx, a reference that does not resolve, or a thrown
\* network error; never after a relay answer without a readable status or
\* with a status outside 4xx/5xx.
C13_BrokenOnlyWhenCertain ==
    \A r \in Runs :
        LET me == runs[r]
        IN  (me.pc = "delay" /\ LastRec(r).status = "Broken")
            => \/ me.absoluteUrl = Failure
               \/ me.probes = <<"relay", "probe">>
               \/ /\ me.proxyData.kind = "code"
                  /\ me.proxyData.code >= 400 /\ me.proxyData.code < 600

\* C13 as amended: the record of a resource is Broken only after a
\* reference that does not resolve, a relay answer that was read and is
\* anything but an ok response with a status code in [200,400), or a
\* no-cors probe that followed an exception in the relay probe.
C13_BrokenCauses ==
    \A r \in Runs :
        LET me == runs[r]
        IN  (me.pc = "delay" /\ LastRec(r).status = "Broken")
            => \/ /\ me.absoluteUrl = Failure
                  /\ me.probes = <<>>
                  /\ LastRec(r).reason = "Error processing resource"
               \/ /\ me.probes = <<"relay", "probe">>
                  /\ LastRec(r).reason = "Network error or resource unavailable"
               \/ /\ me.probes = <<"relay">>
                  /\ me.proxyData.kind \in {"nostatus", "nocode", "code"}
                  /\ ~GoodAnswer(me)

\* a record is Broken after a relay answer without a status field
C13_Witness ==
    \E r \in Runs :
        /\ runs[r].pc = "delay"
        /\ LastRec(r).status = "Broken"
        /\ runs[r].proxyData.kind = "nostatus"

\* the records pushed so far for the source invocation r is working on
OwnRecs(me) == me.hist[me.i].recs

\* C14: an exception while one resource is processed (resolution, relay
\* request, parsing of the answer, probe) never leaves validateResources:
\* the invocation stays with this resource until its one record is pushed,
\* and after the pause it goes on with the next resource of the page.
C14_ResourceIsolation ==
    [][\A r \in Runs :
          LET me  == runs[r]
              me2 == runs'[r]
          IN  /\ (me.pc \in {"resRelay", "resJson", "resProbe"} /\ me2 # me)
                 => /\ me2.i = me.i /\ me2.k = me.k
                    /\ me2.pc \in {"resJson", "resProbe", "delay"}
                    /\ me2.pc = "delay" => Len(OwnRecs(me2)) = me.k
                    /\ me2.pc # "delay" => OwnRecs(me2) = OwnRecs(me)
              /\ (me.pc = "delay" /\ me2 # me /\ me.k < Len(me.resources))
                 => /\ me2.i = me.i /\ me2.k = me.k + 1
                    /\ me2.pc \in {"resRelay", "delay"}
              /\ me.pc = "delay" => Len(OwnRecs(me)) = me.k]_vars

\* the first resource of a page did not resolve, the relay probe and the
\* no-cors probe of the second one threw, and both have their record
C14_Witness ==
    \E r \in Runs :
        /\ runs[r].pc = "delay" /\ runs[r].k = 2
        /\ OwnRecs(runs[r])[1].reason = "Error processing resource"
        /\ OwnRecs(runs[r])[2].reason = "Network error or resource unavailable"
        /\ runs[r].proxyData.kind = "none"

\* C15: an invocation that passed the input checks requests its source URLs
\* one by one in input order, each once, whatever happened with the earlier
\* ones; when every request is answered or throws it reaches its end, where
\* the loading indicator is hidden.
C15_AllSourcesThenEnd ==
    /\ [][\A r \in Runs :
             /\ runs'[r].i \in {runs[r].i, runs[r].i + 1}
             /\ runs'[r].i = runs[r].i + 1
                => /\ runs'[r].pc = "relay"
                   /\ Len(runs'[r].hist) = Len(runs[r].hist) + 1
                   /\ Last(runs'[r].hist) = NewSource
             /\ runs'[r].i = runs[r].i
                => Len(runs'[r].hist) = Len(runs[r].hist)
             /\ Ends(r) => loadingHidden']_vars
    /\ [](\A r \in Runs : runs[r].pc = "done"
                          => runs[r].i = Len(runs[r].urls) /\ Len(runs[r].hist) = Len(runs[r].urls))
    /\ [](\A r \in Runs : \A i \in DOMAIN runs[r].hist :
             \A n \in DOMAIN runs[r].hist[i].tiers :
                 runs[r].hist[i].tiers[n] = "relay" <=> n = 1)
    /\ \A r \in Runs : (runs[r].pc \notin {"idle", "rejected"}) ~> (runs[r].pc = "done")

\* an invocation has ended after its first source was unreachable and a
\* resource of its second source did not resolve
C15_Witness ==
    \E r \in Runs :
        /\ runs[r].pc = "done" /\ loadingHidden
        /\ Len(runs[r].urls) = 2
        /\ runs[r].hist[1].via = "null"
        /\ \E n \in DOMAIN runs[r].hist[2].recs :
              runs[r].hist[2].recs[n].reason = "Error processing resource"

\* source i of invocation r went through the loop over K >= 1 links and images
Looped(r, i) ==
    /\ Processed(r, i)
    /\ runs[r].hist[i].nres >= 1
    /\ runs[r].hist[i].html.text # CORS_RESTRICTED

FetchError == "Failed to fetch content from: "

\* C17 as claimed: when an invocation that passed the input checks ends, the
\* no-results message is visible exactly if validationResults is empty, the
\* table is visible and the export enabled exactly if it is not, and the
\* no-results message and an error message are never presented together.
C17_NoResultsApartFromErrors ==
    [][\A r \in Runs :
          Ends(r) => /\ noResultsHidden' = FALSE <=> validationResults' = <<>>
                     /\ (tableHidden' = FALSE /\ exportDisabled' = FALSE)
                        <=> validationResults' # <<>>
                     /\ ~(noResultsHidden' = FALSE /\ errorMessage' # NoMessage)]_vars

\* C17 as amended: the end of an invocation that passed the input checks
\* unhides the no-results message exactly if validationResults is empty, and
\* fills the table, shows it and enables the export exactly if it is not;
\* the only error message the invocation itself sets is the one of a source
\* whose fetch returned nothing, which stays presented next to the
\* no-results message; a refused invocation does not touch the no-results
\* message.
C17_EndOfRun ==
    [][\A r \in Runs :
          /\ Ends(r)
             => /\ IF validationResults' = <<>>
                   THEN /\ noResultsHidden' = FALSE
                        /\ UNCHANGED <<tableHidden, exportDisabled, resultsBody>>
                   ELSE /\ resultsBody' = validationResults'
                        /\ tableHidden' = FALSE
                        /\ exportDisabled' = FALSE
                        /\ UNCHANGED noResultsHidden
                /\ errorMessage' # errorMessage
                   => /\ errorMessage' = Message(FetchError, <<Last(runs'[r].urls)>>)
                      /\ Last(runs'[r].hist).failed
          /\ runs[r].pc = "idle" /\ runs'[r].pc = "rejected"
             => /\ UNCHANGED noResultsHidden
                /\ errorMessage'.msg \in PreconditionErrors]_vars

\* the only invocation has ended after its only source could not be fetched:
\* the error of the source and the no-results message are both presented
C17_Witness ==
    \E r \in Runs :
        /\ nclicks = 1 /\ runs[r].pc = "done" /\ Len(runs[r].urls) = 1
        /\ runs[r].hist[1].failed
        /\ validationResults = <<>>
        /\ noResultsHidden = FALSE /\ tableHidden /\ exportDisabled
        /\ errorMessage = Message(FetchError, runs[r].urls)

\* the control points at which an invocation awaits the answer to a request
Requesting ==
    {"relay", "relayText", "direct", "directText", "probe",
     "resRelay", "resJson", "resProbe"}

\* the invocations that have passed the input checks and have not ended
InFlight == {r \in Runs : runs[r].pc \in Requesting \cup {"delay"}}

\* C18: at most one invocation is in flight: while one awaits an answer of
\* the network or the end of a pause, no click starts another one.
C18_SingleRunInFlight == Cardinality(InFlight) <= 1

\* the records pushed for the first n sources of a history, in order
RECURSIVE OwnRecords(_, _)
OwnRecords(hist, n) ==
    IF n = 0 THEN <<>> ELSE OwnRecords(hist, n - 1) \o hist[n].recs

\* C19: validationResults belongs to one invocation: from the start of an
\* invocation to its end it holds the records this invocation has pushed and
\* no others, each for one of its own source URLs, whatever other clicks
\* happen meanwhile (refused ones included), and this is the list the
\* invocation shows and offers for export at its end.
C19_PrivateAccumulator ==
    [][\A r \in Runs :
          /\ runs'[r].pc \in Requesting \cup {"delay"} \/ Ends(r)
             => /\ validationResults' = OwnRecords(runs'[r].hist, Len(runs'[r].hist))
                /\ \A n \in DOMAIN validationResults' :
                      \E a \in DOMAIN runs'[r].urls :
                          validationResults'[n].sourceUrl = runs'[r].urls[a]
          /\ Ends(r) /\ ~exportDisabled'
             => resultsBody' = OwnRecords(runs'[r].hist, Len(runs'[r].hist))]_vars

\* C20: at every moment at most one request to the network is outstanding.
C20_OneRequestOutstanding ==
    Cardinality({r \in Runs : runs[r].pc \in Requesting}) <= 1
====
